---- MODULE Spec2Model ----
(***************************************************************************)
(* A state-machine model of bookshelf's Model facade (src/lib/model.js):   *)
(* fetch, load, save and destroy as promise chains over one model          *)
(* instance, with the database, the event handlers and the eager loader    *)
(* as nondeterministic collaborators, and the polymorphic relation methods *)
(* morphOne, morphMany and morphTo.                                        *)
(*                                                                         *)
(* Spec is fetch alone, SpecLoad load alone, SpecRead both on one model,   *)
(* SpecWrite save and destroy, SpecRelate the relation methods.            *)
(***************************************************************************)
EXTENDS Integers, Sequences, FiniteSets, TLC

\* ------------------------------------------------------------------ bounds
\* The most rows one relation query returns.
MaxRows == 2
\* Attribute values the database and the caller draw from: 1..MaxVal.
MaxVal == 2

VARIABLES
  op,            \* the facade method in progress: "none", "fetch", "load", "save", "destroy"
  pc,            \* the position in that method's promise chain
  args,          \* the method's positional arguments
  options,       \* the method's own (cloned) options hash
  response,      \* what the last root query resolved with
  err,           \* the rejection travelling down the chain ("none" when fulfilled)
  raisedBy,      \* the step that raised it ("none" when fulfilled)
  replaced,      \* the relation names whose entry this invocation overwrote
  result,        \* the promise the method returned
  attributes,    \* this.attributes
  id,            \* this.id: <<>> when null, <<v>> otherwise
  relations,     \* this.relations, keyed by relation name
  inflight,      \* relation paths whose eager query is issued and not yet returned
  qcount,        \* eager queries issued per relation path, in this invocation
  returned,      \* the rows each eager query of this invocation returned
  eagerOptions,  \* the options handed to the eager loader
  trace,         \* the steps this invocation has taken, in order
  relatedData,   \* this.relatedData.type, "none" without relatedData
  hasTimestamps, \* this.hasTimestamps
  defaults,      \* _.result(this, 'defaults'), empty when the model has none
  previousAttributes, \* this._previousAttributes
  sent,          \* the attributes the last write query was given
  resp,          \* what the last write query resolved with
  queryOptions,  \* the options each eager query of this invocation was issued with
  queries,       \* the constraints each query object holds, by reference
  executed,      \* the constraints of the query object the last write ran on
  declared       \* what the last relation method returned or threw

vars == <<op, pc, args, options, response, err, raisedBy, result, attributes, id, relations,
          inflight, qcount, returned, replaced, eagerOptions, trace, relatedData,
          hasTimestamps, defaults, previousAttributes, sent, resp, queryOptions,
          queries, executed, declared>>

\* What the read methods (fetch, load) leave alone.
writeVars == <<hasTimestamps, defaults, sent, resp, queries, executed, declared>>

\* What the write methods (save, destroy) leave alone.
readVars == <<response, relations, inflight, qcount, returned, replaced, eagerOptions,
              queryOptions, relatedData, declared>>

\* ------------------------------------------------------------- data model
Has(o, k) == k \in DOMAIN o

\* The options that hold a boolean; withRelated holds an array.
BooleanKeys == {"require", "patch", "defaults", "shallow"}

\* JavaScript truthiness of an option: absent is falsy, an array is truthy.
Truthy(o, k) == Has(o, k) /\ (IF k \in BooleanKeys THEN o[k] ELSE TRUE)

\* _.omit(o, k)
Omit(o, k) == [x \in DOMAIN o \ {k} |-> o[x]]

\* _.extend({}, a, b): the keys of b win.
Extend(a, b) == [x \in DOMAIN a \cup DOMAIN b |-> IF x \in DOMAIN b THEN b[x] ELSE a[x]]

NoAttrs == [x \in {} |-> 0]

\* The relations declared on the root model and on its related models,
\* as dot-delimited paths split into segments (the Book example of fetch).
Paths == { <<"genre">>, <<"editions">>, <<"editions", "printings">>,
           <<"editions", "printings", "pages">> }

\* The withRelated arrays callers pass: none, single relations, siblings,
\* nested paths of depth two and three, and a nested path beside a sibling.
WithRelatedSets ==
  { {}, {<<"genre">>}, {<<"editions">>}, {<<"genre">>, <<"editions">>},
    {<<"editions", "printings">>},
    {<<"genre">>, <<"editions", "printings", "pages">>} }

IsPrefix(p, q) == Len(p) <= Len(q) /\ SubSeq(q, 1, Len(p)) = p

\* What a relation query can return: the first n rows of the related table.
Responses == { [i \in 1..n |-> i] : n \in 0..MaxRows }

\* Rows of the root table.
Rows == { [id |-> 1, title |-> t] : t \in 1..MaxVal }

Pending == [state |-> "pending", value |-> "none"]
Resolved(v) == [state |-> "resolved", value |-> v]
Rejected(e) == [state |-> "rejected", value |-> e]

\* A root response: missing (undefined) or an array of rows.
Missing == [missing |-> TRUE, rows |-> <<>>]
Array(rows) == [missing |-> FALSE, rows |-> rows]

Idle == pc \in {"idle", "done"}

\* What a handler, parse or a relation callback of the caller can fail with:
\* an error, or the value null, which a rejection may carry as well.
Reasons == {"Error", "null"}

\* A step fails with reason e: the chain below it is skipped.
Raise(by, e) == err' = e /\ raisedBy' = by

NoRaise == UNCHANGED <<err, raisedBy>>

\* Mutant: the chain goes on whether or not a handler failed.
afterHooks_ignoresFailure(ok, next, fail) == next

\* A chain step whose handlers were triggered: the chain goes on when they
\* all succeeded and skips to its rejection handling otherwise.
afterHooks(ok, next, fail) == IF ok THEN next ELSE fail

\* triggerThen(names, ...): every handler of the events runs; the promise is
\* fulfilled when all succeeded and rejected with the first failure otherwise.
triggerThen(by, next, fail) ==
  \/ NoRaise /\ pc' = afterHooks(TRUE, next, fail)
  \/ \E e \in Reasons : Raise(by, e) /\ pc' = afterHooks(FALSE, next, fail)

\* The query objects an invocation can hold a reference to: the one its Sync
\* was created with, and a copy of it.
QueryRefs == {"sync.query", "clone"}

\* No relation method has been called yet.
NotDeclared == [state |-> "none"]

Constructed ==
  /\ op = "none"
  /\ pc = "idle"
  /\ args = NoAttrs
  /\ options = NoAttrs
  /\ response = Missing
  /\ err = "none"
  /\ raisedBy = "none"
  /\ result = Pending
  /\ relations = NoAttrs
  /\ replaced = {}
  /\ inflight = {}
  /\ qcount = [p \in Paths |-> 0]
  /\ returned = NoAttrs
  /\ eagerOptions = NoAttrs
  /\ trace = <<>>
  /\ sent = NoAttrs
  /\ resp = 0
  /\ queryOptions = NoAttrs
  /\ queries = [r \in QueryRefs |-> {}]
  /\ executed = {}
  /\ declared = NotDeclared

\* A model obtained with or without a joined relation, read from the database.
Init ==
  /\ Constructed
  /\ attributes = NoAttrs
  /\ id = <<>>
  /\ previousAttributes = NoAttrs
  /\ relatedData \in {"none", "belongsToMany"}
  /\ hasTimestamps = FALSE
  /\ defaults = NoAttrs

\* ------------------------------------------------------------------ fetch
\* The options a caller passes to fetch: require and withRelated in every
\* combination, and a transaction handle and a column list beside a nested
\* and a plain withRelated.
FetchOptions ==
  { Extend(r, w) :
      r \in {NoAttrs} \cup { [require |-> b] : b \in BOOLEAN },
      w \in {NoAttrs} \cup { [withRelated |-> W] : W \in WithRelatedSets } }
  \cup
  { [transacting |-> "trx", withRelated |-> {<<"editions", "printings">>}],
    [transacting |-> "trx", columns |-> "title",
     withRelated |-> {<<"editions", "printings">>}],
    [columns |-> "title", withRelated |-> {<<"genre">>}] }

\* Entering a method: the state one invocation keeps starts afresh.
Enter(name, a, opts, at) ==
  /\ Idle
  /\ op' = name
  /\ pc' = at
  /\ args' = a
  /\ options' = opts
  /\ response' = Missing
  /\ err' = "none"
  /\ raisedBy' = "none"
  /\ replaced' = {}
  /\ result' = Pending
  /\ inflight' = {}
  /\ qcount' = [p \in Paths |-> 0]
  /\ returned' = NoAttrs
  /\ eagerOptions' = NoAttrs
  /\ queryOptions' = NoAttrs
  /\ trace' = <<>>

\* fetch: options = options ? _.clone(options) : {}; this.sync(options).first()
fetch ==
  \E opts \in FetchOptions :
    /\ Enter("fetch", NoAttrs, opts, "first")
    /\ UNCHANGED <<attributes, id, previousAttributes, relations, relatedData, writeVars>>

\* sync.first(): the 'fetching' handlers run, then the root select is issued
\* and answered: with an error, with nothing, or with an array of rows.
syncFirst ==
  /\ op = "fetch" /\ pc = "first"
  /\ \/ /\ trace' = trace \o <<"fetching">>
        /\ \E e \in Reasons : Raise("fetching", e)
        /\ pc' = "catch"
        /\ UNCHANGED response
     \/ /\ trace' = trace \o <<"fetching", "select">>
        /\ Raise("select", "QueryError")
        /\ pc' = "catch"
        /\ UNCHANGED response
     \/ /\ trace' = trace \o <<"fetching", "select", "response">>
        /\ response' \in {Missing, Array(<<>>)} \cup { Array(<<r>>) : r \in Rows }
        /\ pc' = "tapEmpty"
        /\ NoRaise
  /\ UNCHANGED <<op, args, options, result, attributes, id, previousAttributes, relations, inflight,
                 qcount, returned, replaced, eagerOptions, queryOptions, relatedData, writeVars>>

\* !response || response.length === 0
isEmptyResponse(r) == r.missing \/ Len(r.rows) = 0

\* Mutant: the require option is not consulted.
emptyRejection_ignoresRequire(opts) == "null"

\* if (options.require) throw new NotFoundError; return Promise.reject(null)
emptyRejection(opts) == IF Truthy(opts, "require") THEN "NotFoundError" ELSE "null"

\* Mutant: the eager load no longer waits for _handleResponse.
fetchTapEmpty_skipsHandleResponse ==
  /\ op = "fetch" /\ pc = "tapEmpty"
  /\ IF isEmptyResponse(response)
       THEN Raise("empty", emptyRejection(options)) /\ pc' = "catch"
       ELSE NoRaise /\ pc' = "tapEager"
  /\ UNCHANGED <<op, args, options, response, result, attributes, id,
                 previousAttributes, relations, inflight, qcount, returned,
                 replaced, eagerOptions, queryOptions, trace, relatedData, writeVars>>

\* "Jump the rest of the chain if the response doesn't exist..."
fetchTapEmpty ==
  /\ op = "fetch" /\ pc = "tapEmpty"
  /\ IF isEmptyResponse(response)
       THEN Raise("empty", emptyRejection(options)) /\ pc' = "catch"
       ELSE NoRaise /\ pc' = "handleResponse"
  /\ UNCHANGED <<op, args, options, response, result, attributes, id, previousAttributes, relations,
                 inflight, qcount, returned, replaced, eagerOptions, queryOptions, trace, relatedData, writeVars>>

\* relatedData.isJoined(): the relation runs over a join table.
isJoined(type) == type = "belongsToMany"

\* Mutant: the pivot is parsed whatever the model's relatedData.
handleResponseSteps_alwaysParsesPivot(type) == <<"set", "_reset", "parsePivot">>

\* The steps of _handleResponse once parse has returned.
handleResponseSteps(type) ==
  IF isJoined(type) THEN <<"set", "_reset", "parsePivot">> ELSE <<"set", "_reset">>

\* .tap(this._handleResponse): this.set(this.parse(response[0]))._reset(),
\* then parsePivot for a joined relation. parse is the model's own and may throw.
_handleResponse ==
  /\ op = "fetch" /\ pc = "handleResponse"
  /\ \/ /\ \E e \in Reasons : Raise("parse", e)
        /\ pc' = "catch"
        /\ UNCHANGED <<attributes, id, previousAttributes, trace>>
     \/ /\ attributes' = Extend(attributes, response.rows[1])
        /\ id' = <<response.rows[1].id>>
        /\ previousAttributes' = attributes'
        /\ trace' = trace \o handleResponseSteps(relatedData)
        /\ pc' = "tapEager"
        /\ NoRaise
  /\ UNCHANGED <<op, args, options, response, result, relations, inflight, qcount,
                 returned, replaced, eagerOptions, queryOptions, relatedData, writeVars>>

\* ------------------------------------------------------------ eager loader
\* prepWithRelated: the relations asked for, none when withRelated is absent.
withRelatedOf(opts) == IF Has(opts, "withRelated") THEN opts.withRelated ELSE {}

\* The relation paths one level below `prefix` that withRelated W asks for.
Requested(W, prefix) ==
  { SubSeq(p, 1, Len(prefix) + 1) :
      p \in { q \in W : IsPrefix(prefix, q) /\ Len(q) > Len(prefix) } }

\* Mutant: a level without roots is queried all the same.
eagerFetch_ignoresEmptyRoots(W, prefix, n) == Requested(W, prefix)

\* EagerRelation.fetch over n roots: one query per distinct relation name of
\* the level, none without roots.
eagerFetch(W, prefix, n) == IF n = 0 THEN {} ELSE Requested(W, prefix)

\* Pairing the rows of relation p with their owners: a relation of the root
\* overwrites the root's entry of that name; the rows of a nested level are
\* set on the related instances, not on the root.
attach(rels, p, rows) ==
  IF Len(p) = 1 THEN Extend(rels, [x \in {p[1]} |-> rows]) ELSE rels

\* The chain step that follows the eager load.
afterEager == IF op = "fetch" THEN "tapFetched" ELSE "return"

\* The options the query of relation p is issued with: the loader's own, with
\* withRelated narrowed to what is asked for below p.
levelOptions(opts, p) ==
  Extend(opts, [withRelated |->
    { SubSeq(w, Len(p) + 1, Len(w)) :
        w \in { v \in withRelatedOf(opts) : IsPrefix(p, v) /\ v # p } }])

\* The queries in `issue` are issued with their level's options.
issueWith(issue, opts) ==
  Extend(queryOptions, [p \in issue |-> levelOptions(opts, p)])

\* Mutant: the queries of every level are issued at once.
_handleEager_issuesAllLevels(opts) ==
  LET issue == { q \in Paths : \E w \in withRelatedOf(opts) : IsPrefix(q, w) } IN
  /\ eagerOptions' = opts
  /\ queryOptions' = issueWith(issue, opts)
  /\ trace' = trace \o <<"EagerRelation">>
  /\ inflight' = issue
  /\ qcount' = [p \in Paths |-> IF p \in issue THEN qcount[p] + 1 ELSE qcount[p]]
  /\ pc' = IF issue = {} THEN afterEager ELSE "eager"

\* _handleEager: new EagerRelation([this], response, this).fetch(options)
_handleEager(opts) ==
  LET issue == eagerFetch(withRelatedOf(opts), <<>>, 1) IN
  /\ eagerOptions' = opts
  /\ queryOptions' = issueWith(issue, opts)
  /\ trace' = trace \o <<"EagerRelation">>
  /\ inflight' = issue
  /\ qcount' = [p \in Paths |-> IF p \in issue THEN qcount[p] + 1 ELSE qcount[p]]
  /\ pc' = IF issue = {} THEN afterEager ELSE "eager"

\* Mutant: the wrong key is omitted.
fetchEagerOptions_omitsWithRelated(opts) == Omit(opts, "withRelated")

\* Mutant: only the relations asked for are handed on.
fetchEagerOptions_onlyWithRelated(opts) == [withRelated |-> opts.withRelated]

\* _.omit(options, 'columns')
fetchEagerOptions(opts) == Omit(opts, "columns")

\* if (options.withRelated) return this._handleEager(response, _.omit(options, 'columns'))
fetchTapEager ==
  /\ op = "fetch" /\ pc = "tapEager"
  /\ IF Truthy(options, "withRelated")
       THEN _handleEager(fetchEagerOptions(options))
       ELSE /\ pc' = "tapFetched"
            /\ UNCHANGED <<eagerOptions, queryOptions, trace, inflight, qcount>>
  /\ UNCHANGED <<op, args, options, response, err, raisedBy, result, attributes, id, previousAttributes, relations,
                 returned, replaced, relatedData, writeVars>>

\* One eager query returns its rows: they are attached, and the next level
\* below it is queried with the new instances as roots.
eagerQueryReturns ==
  /\ pc = "eager"
  /\ \E p \in inflight, rows \in Responses :
       LET issue == eagerFetch(withRelatedOf(eagerOptions), p, Len(rows)) IN
       /\ relations' = attach(relations, p, rows)
       /\ returned' = Extend(returned, [x \in {p} |-> rows])
       /\ replaced' = IF Len(p) = 1 /\ Has(relations, p[1]) /\ relations[p[1]] # rows
                        THEN replaced \cup {p[1]} ELSE replaced
       /\ inflight' = (inflight \ {p}) \cup issue
       /\ qcount' = [q \in Paths |-> IF q \in issue THEN qcount[q] + 1 ELSE qcount[q]]
       /\ queryOptions' = issueWith(issue, eagerOptions)
       /\ pc' = IF inflight' = {} THEN afterEager ELSE "eager"
  /\ UNCHANGED <<op, args, options, response, err, raisedBy, result, attributes, id, previousAttributes,
                 eagerOptions, trace, relatedData, writeVars>>

\* One eager query is rejected: the whole eager load is.
eagerQueryFails ==
  /\ pc = "eager"
  /\ \E p \in inflight :
       /\ inflight' = {}
       /\ \E e \in Reasons \cup {"QueryError"} : Raise("eager", e)
       /\ pc' = IF op = "fetch" THEN "catch" ELSE "reject"
  /\ UNCHANGED <<op, args, options, response, result, attributes, id, previousAttributes, relations,
                 qcount, returned, replaced, eagerOptions, queryOptions, trace, relatedData, writeVars>>

\* .tap(function(response) { return this.triggerThen('fetched', ...) })
fetchTapFetched ==
  /\ op = "fetch" /\ pc = "tapFetched"
  /\ trace' = trace \o <<"fetched">>
  /\ triggerThen("fetched", "return", "catch")
  /\ UNCHANGED <<op, args, options, response, result, attributes, id, previousAttributes, relations,
                 inflight, qcount, returned, replaced, eagerOptions, queryOptions, relatedData, writeVars>>

\* .return(this)
fetchReturn ==
  /\ op = "fetch" /\ pc = "return"
  /\ result' = Resolved("model")
  /\ pc' = "done"
  /\ UNCHANGED <<op, args, options, response, err, raisedBy, attributes, id, previousAttributes, relations,
                 inflight, qcount, returned, replaced, eagerOptions, queryOptions, trace, relatedData, writeVars>>

\* Mutant: the catch rethrows whatever it is given.
catchHandler_rethrows(e) == Rejected(e)

\* .catch(function(err) { if (err === null) return err; throw err; })
catchHandler(e) == IF e = "null" THEN Resolved("null") ELSE Rejected(e)

fetchCatch ==
  /\ op = "fetch" /\ pc = "catch"
  /\ result' = catchHandler(err)
  /\ pc' = "done"
  /\ UNCHANGED <<op, args, options, response, err, raisedBy, attributes, id, previousAttributes, relations,
                 inflight, qcount, returned, replaced, eagerOptions, queryOptions, trace, relatedData, writeVars>>

\* ------------------------------------------------------------------- load
\* The arguments a caller passes to load: one relation name or an array of
\* them, and an options hash that may itself carry shallow and withRelated.
LoadRelations ==
  { [isArray |-> FALSE, value |-> {p}] : p \in Paths } \cup
  { [isArray |-> TRUE, value |-> W] : W \in WithRelatedSets }

LoadOptions ==
  { NoAttrs, [shallow |-> FALSE, withRelated |-> {<<"genre">>}],
    [transacting |-> "trx"] }

\* Mutant: the caller's options are extended last, so that they win.
loadEagerOptions_callerWins(rels, opts) ==
  Extend([shallow |-> TRUE, withRelated |-> rels.value], opts)

\* _.extend({}, options, {shallow: true,
\*   withRelated: _.isArray(relations) ? relations : [relations]})
loadEagerOptions(rels, opts) ==
  Extend(opts, [shallow |-> TRUE, withRelated |-> rels.value])

\* load: the formatted attributes stand in for the root row, then _handleEager.
load ==
  \E rels \in LoadRelations, opts \in LoadOptions :
    /\ Enter("load", rels, opts, "format")
    /\ UNCHANGED <<attributes, id, previousAttributes, relations, relatedData, writeVars>>

\* this.format(attrs): the attributes as they are stored; a model that does
\* not override it stores them as they are.
format(attrs) == attrs

\* Mutant: load selects its root row from the database as fetch does.
loadFormat_selectsRoot ==
  /\ op = "load" /\ pc = "format"
  /\ trace' = trace \o <<"select", "response">>
  /\ response' \in { Array(<<r>>) : r \in Rows }
  /\ pc' = "handleEager"
  /\ UNCHANGED <<op, args, options, err, raisedBy, result, attributes, id,
                 previousAttributes, relations, inflight, qcount, returned, replaced,
                 eagerOptions, queryOptions, relatedData, writeVars>>

\* return [this.format(_.extend(Object.create(null), this.attributes))]
loadFormat ==
  /\ op = "load" /\ pc = "format"
  /\ response' = Array(<<format(attributes)>>)
  /\ pc' = "handleEager"
  /\ UNCHANGED <<op, args, options, err, raisedBy, result, attributes, id, previousAttributes, relations,
                 inflight, qcount, returned, replaced, eagerOptions, queryOptions, trace, relatedData, writeVars>>

\* return this._handleEager(response, _.extend({}, options, {...}))
loadHandleEager ==
  /\ op = "load" /\ pc = "handleEager"
  /\ _handleEager(loadEagerOptions(args, options))
  /\ UNCHANGED <<op, args, options, response, err, raisedBy, result, attributes, id, previousAttributes,
                 relations, returned, replaced, relatedData, writeVars>>

\* .return(this)
loadReturn ==
  /\ op = "load" /\ pc = "return"
  /\ result' = Resolved("model")
  /\ pc' = "done"
  /\ UNCHANGED <<op, args, options, response, err, raisedBy, attributes, id, previousAttributes, relations,
                 inflight, qcount, returned, replaced, eagerOptions, queryOptions, trace, relatedData, writeVars>>

\* Promise.method: a rejection inside load rejects the promise load returned.
loadReject ==
  /\ op = "load" /\ pc = "reject"
  /\ result' = Rejected(err)
  /\ pc' = "done"
  /\ UNCHANGED <<op, args, options, response, err, raisedBy, attributes, id, previousAttributes, relations,
                 inflight, qcount, returned, replaced, eagerOptions, queryOptions, trace, relatedData, writeVars>>

\* ------------------------------------------------------------------- save
\* The value timestamp() stamps: the current date, unlike any caller's value.
Now == MaxVal + 1

\* The ways a caller passes attributes: save(), save({title: v}), save('title', v).
SaveCalls ==
  {[style |-> "none"]} \cup
  { [style |-> "hash", key |-> "title", val |-> 1] } \cup
  { [style |-> "keyval", key |-> "title", val |-> MaxVal] }

\* The options a caller passes to save: at most two of method, require, patch
\* and defaults, require paired with method only.
SaveOptionsAll ==
  { Extend(Extend(m, r), Extend(pa, d)) :
      m \in {NoAttrs} \cup { [method |-> x] : x \in {"insert", "update"} },
      r \in {NoAttrs} \cup { [require |-> b] : b \in BOOLEAN },
      pa \in {NoAttrs, [patch |-> TRUE]},
      d \in {NoAttrs, [defaults |-> TRUE]} }

SaveOptions ==
  { o \in SaveOptionsAll :
      /\ Cardinality(DOMAIN o) <= 2
      /\ Has(o, "require") => DOMAIN o \subseteq {"require", "method"} }

\* "Handle both `"key", value` and `{key: value}` -style arguments."
saveAttrs(call) ==
  IF call.style = "none" THEN NoAttrs ELSE [x \in {call.key} |-> call.val]

\* save: the arguments are sorted out, then the chain starts with isNew.
save ==
  \E call \in SaveCalls, opts \in SaveOptions :
    /\ Enter("save", saveAttrs(call), opts, "prepare")
    /\ sent' = NoAttrs
    /\ resp' = 0
    /\ queries' = [r \in QueryRefs |-> {}]
    /\ executed' = {}
    /\ UNCHANGED <<attributes, id, previousAttributes, relations, relatedData,
                   hasTimestamps, defaults, declared>>

\* isNew: no identity assigned yet.
isNew(i) == i = <<>>

\* saveMethod: options.method when given, else insert for a new model.
saveMethod(opts, i) ==
  IF Has(opts, "method") THEN opts.method
  ELSE IF isNew(i) THEN "insert" ELSE "update"

\* Mutant: the defaults are extended last, over what is set and passed.
mergeDefaults_defaultsLast(method, opts, dflt, current, attrs) ==
  IF (method = "insert" \/ Truthy(opts, "defaults")) /\ dflt # NoAttrs
    THEN Extend(Extend(current, attrs), dflt)
    ELSE attrs

\* if (method === 'insert' || options.defaults) { ... _.extend({}, defaults,
\* this.attributes, attrs) } when the model has defaults.
mergeDefaults(method, opts, dflt, current, attrs) ==
  IF (method = "insert" \/ Truthy(opts, "defaults")) /\ dflt # NoAttrs
    THEN Extend(Extend(dflt, current), attrs)
    ELSE attrs

\* timestamp({method: method}): updated_at always, created_at when the model
\* is being created. The values are also set on the model.
timestamp(method) ==
  IF method = "insert"
    THEN [created_at |-> Now, updated_at |-> Now]
    ELSE [updated_at |-> Now]

\* this.set(attrs): the attributes are merged in, and this.id follows the id.
setId(i, attrs) == IF Has(attrs, "id") THEN <<attrs.id>> ELSE i

\* The events triggerThen fires before and after the write.
preEvents(method) ==
  IF method = "insert" THEN <<"creating", "saving">> ELSE <<"updating", "saving">>

postEvents(method) ==
  IF method = "insert" THEN <<"created", "saved">> ELSE <<"updated", "saved">>

\* var sync = this.sync(options): the query object the Sync holds and runs.
syncQuery == "sync.query"

\* Mutant: the handlers are given a copy of the query object.
exposedQuery_copy(q) == "clone"

\* options.query = sync.query
exposedQuery(q) == q

\* What a handler can do with options.query: add a constraint to it, or not.
HookConstraints == {"where"}

\* The handlers of a pre-write event ran with these options.
hooksConstrain(opts) ==
  \E c \in SUBSET HookConstraints :
    queries' = [queries EXCEPT ![opts.query] = @ \cup c]

\* The steps of save before its pre-save hooks.
prepareSteps(stamped) == IF stamped THEN <<"set", "timestamp">> ELSE <<"set">>

\* The callback of save up to its pre-save hooks: method, defaults, set,
\* timestamps, sync, triggerThen('creating saving' | 'updating saving').
savePrepare ==
  /\ op = "save" /\ pc = "prepare"
  /\ LET method == saveMethod(options, id)
         merged == mergeDefaults(method, options, defaults, attributes, args)
         stamps == IF hasTimestamps THEN timestamp(method) ELSE NoAttrs
     IN
     /\ options' = Extend(options, [method |-> method, query |-> exposedQuery(syncQuery)])
     /\ attributes' = Extend(Extend(attributes, merged), stamps)
     /\ id' = setId(id, merged)
     /\ args' = Extend(merged, stamps)
     /\ trace' = trace \o prepareSteps(hasTimestamps) \o preEvents(method)
     /\ hooksConstrain(options')
     /\ triggerThen("pre", "write", "reject")
  /\ UNCHANGED <<op, result, previousAttributes, hasTimestamps, defaults, sent,
                 resp, executed, readVars>>

\* method === 'update' && options.patch ? attrs : this.attributes
savePayload(opts, attrs, current) ==
  IF opts.method = "update" /\ Truthy(opts, "patch") THEN attrs ELSE current

\* What an insert resolves with (the new ids) and what an update or a delete
\* resolves with (the number of rows affected).
WriteResults(method) ==
  IF method = "insert" THEN { <<v>> : v \in 1..MaxVal } ELSE 0..1

\* A write of the Sync runs on the query object the Sync holds.
syncRuns(q) == q[syncQuery]

\* return sync[options.method](...): the write is issued and answered.
saveWrite ==
  /\ op = "save" /\ pc = "write"
  /\ trace' = trace \o <<options.method>>
  /\ sent' = savePayload(options, args, attributes)
  /\ executed' = syncRuns(queries)
  /\ \/ /\ Raise("write", "QueryError")
        /\ pc' = "reject"
        /\ UNCHANGED resp
     \/ /\ resp' \in WriteResults(options.method)
        /\ pc' = "written"
        /\ NoRaise
  /\ UNCHANGED <<op, args, options, result, attributes, id, previousAttributes,
                 hasTimestamps, defaults, queries, readVars>>

\* Mutant: the error is raised only when require is given and true.
noRowsUpdated_onlyWhenRequired(opts, r) ==
  /\ opts.method = "update"
  /\ r = 0
  /\ Truthy(opts, "require")

\* method === 'update' && resp === 0 && options.require !== false
noRowsUpdated(opts, r) ==
  /\ opts.method = "update"
  /\ r = 0
  /\ ~(Has(opts, "require") /\ opts.require = FALSE)

\* Mutant: the id of a created model is never taken from the write result.
assignsId_never(opts, i) == FALSE

\* method === 'insert' && this.id == null
assignsId(opts, i) == opts.method = "insert" /\ i = <<>>

\* Mutant: the previous attributes are captured after the reset.
capturedPrevious_afterReset(prev, current) == current

\* options.previousAttributes = this._previousAttributes, before this._reset()
capturedPrevious(prev, current) == prev

\* The steps of the callback after a write that did not fail for zero rows.
writtenSteps(assigned) ==
  IF assigned THEN <<"id", "previousAttributes", "_reset">>
  ELSE <<"previousAttributes", "_reset">>

\* The callback after the write: the id of a created model, the zero-row
\* update, previousAttributes, _reset, triggerThen('created saved' | 'updated saved').
saveWritten ==
  /\ op = "save" /\ pc = "written"
  /\ IF assignsId(options, id)
       THEN /\ id' = <<resp[1]>>
            /\ attributes' = Extend(attributes, [id |-> resp[1]])
       ELSE UNCHANGED <<id, attributes>>
  /\ IF ~assignsId(options, id) /\ noRowsUpdated(options, resp)
       THEN /\ Raise("norows", "NoRowsUpdatedError")
            /\ pc' = "reject"
            /\ UNCHANGED <<options, previousAttributes, trace>>
       ELSE /\ options' = Extend(options, [previousAttributes |->
                             capturedPrevious(previousAttributes, attributes')])
            /\ previousAttributes' = attributes'
            /\ trace' = trace \o writtenSteps(assignsId(options, id))
                              \o postEvents(options.method)
            /\ triggerThen("post", "return", "reject")
  /\ UNCHANGED <<op, args, result, hasTimestamps, defaults, sent, resp, queries,
                 executed, readVars>>

\* .return(this)
saveReturn ==
  /\ op = "save" /\ pc = "return"
  /\ result' = Resolved("model")
  /\ pc' = "done"
  /\ UNCHANGED <<op, args, options, err, raisedBy, attributes, id, previousAttributes,
                 trace, writeVars, readVars>>

\* Promise.method: a rejection inside save or destroy rejects the promise
\* the method returned.
writeReject ==
  /\ op \in {"save", "destroy"} /\ pc = "reject"
  /\ result' = Rejected(err)
  /\ pc' = "done"
  /\ UNCHANGED <<op, args, options, err, raisedBy, attributes, id, previousAttributes,
                 trace, writeVars, readVars>>

\* ---------------------------------------------------------------- destroy
DestroyOptions == {NoAttrs} \cup { [require |-> b] : b \in BOOLEAN }

\* destroy: options cloned, sync created, options.query = sync.query.
destroy ==
  \E opts \in DestroyOptions :
    /\ Enter("destroy", NoAttrs, Extend(opts, [query |-> exposedQuery(syncQuery)]),
             "destroying")
    /\ sent' = NoAttrs
    /\ resp' = 0
    /\ queries' = [r \in QueryRefs |-> {}]
    /\ executed' = {}
    /\ UNCHANGED <<attributes, id, previousAttributes, relations, relatedData,
                   hasTimestamps, defaults, declared>>

\* return this.triggerThen('destroying', this, options)
destroyTrigger ==
  /\ op = "destroy" /\ pc = "destroying"
  /\ trace' = trace \o <<"destroying">>
  /\ hooksConstrain(options)
  /\ triggerThen("pre", "del", "reject")
  /\ UNCHANGED <<op, args, options, result, attributes, id, previousAttributes,
                 hasTimestamps, defaults, sent, resp, executed, readVars>>

\* return sync.del()
destroyDel ==
  /\ op = "destroy" /\ pc = "del"
  /\ trace' = trace \o <<"del">>
  /\ executed' = syncRuns(queries)
  /\ \/ /\ Raise("write", "QueryError")
        /\ pc' = "reject"
        /\ UNCHANGED resp
     \/ /\ resp' \in WriteResults("del")
        /\ pc' = "deleted"
        /\ NoRaise
  /\ UNCHANGED <<op, args, options, result, attributes, id, previousAttributes,
                 hasTimestamps, defaults, sent, queries, readVars>>

\* Mutant: the number of deleted rows is not looked at.
noRowsDeleted_never(opts, r) == FALSE

\* Mutant: a delete of zero rows fails whatever require is.
noRowsDeleted_requireIgnored(opts, r) == r = 0

\* options.require && resp === 0
noRowsDeleted(opts, r) == Truthy(opts, "require") /\ r = 0

\* The callback after the delete: the zero-row delete, clear,
\* triggerThen('destroyed').
destroyDeleted ==
  /\ op = "destroy" /\ pc = "deleted"
  /\ IF noRowsDeleted(options, resp)
       THEN /\ Raise("norows", "NoRowsDeletedError")
            /\ pc' = "reject"
            /\ UNCHANGED <<attributes, id, trace>>
       ELSE /\ attributes' = NoAttrs
            /\ id' = <<>>
            /\ trace' = trace \o <<"clear", "destroyed">>
            /\ triggerThen("post", "reset", "reject")
  /\ UNCHANGED <<op, args, options, result, previousAttributes, writeVars, readVars>>

\* .then(this._reset): destroy resolves with what _reset returns, the model.
destroyReset ==
  /\ op = "destroy" /\ pc = "reset"
  /\ previousAttributes' = attributes
  /\ trace' = trace \o <<"_reset">>
  /\ result' = Resolved("model")
  /\ pc' = "done"
  /\ UNCHANGED <<op, args, options, err, raisedBy, attributes, id, writeVars, readVars>>

\* A model as constructed by the caller, new or with an identity, of a class
\* with timestamps, with defaults, or with neither.
InitWrite ==
  /\ Constructed
  /\ attributes \in { NoAttrs, [id |-> 1, title |-> 1] }
  /\ id = setId(<<>>, attributes)
  /\ previousAttributes = attributes
  /\ relatedData = "none"
  /\ hasTimestamps \in BOOLEAN
  /\ defaults \in { NoAttrs, [title |-> 0] }
  /\ hasTimestamps => defaults = NoAttrs

NextWrite ==
  \/ save
  \/ savePrepare
  \/ saveWrite
  \/ saveWritten
  \/ saveReturn
  \/ writeReject
  \/ destroy
  \/ destroyTrigger
  \/ destroyDel
  \/ destroyDeleted
  \/ destroyReset

SpecWrite == InitWrite /\ [][NextWrite]_vars

\* -------------------------------------------------- polymorphic relations
\* JavaScript values a relation method is called with, tagged with their type.
Undefined == [type |-> "undefined", v |-> ""]
Null == [type |-> "null", v |-> ""]
Str(x) == [type |-> "string", v |-> x]
Arr(x) == [type |-> "array", v |-> x]
Ctor(x) == [type |-> "function", v |-> x]

\* _.isString, _.isArray and the falsiness `!x` tests.
isString(x) == x.type = "string"
isArray(x) == x.type = "array"
Falsy(x) == x.type \in {"undefined", "null"} \/ (x.type = "string" /\ x.v = "")

\* The model constructors a polymorphic relation can target.
Targets == { Ctor("Site"), Ctor("Post") }

\* A custom pair of column names.
ColumnNames == Arr("ImageableType,ImageableId")

\* The outcome of a relation method: an error thrown, or a relation.
Threw(msg) == [state |-> "threw", message |-> msg]

\* this._relation(type, Target, options): a relation of that type over the
\* target, holding the options as given.
_relation(type, Target, opts) ==
  [state |-> "relation", type |-> type, target |-> Target, options |-> opts,
   parent |-> "none"]

\* relation.init(parent): the relation is bound to the model it was declared on.
init(rel, parent) == [rel EXCEPT !.parent = parent]

\* The arguments morphTo is called with: a name or something else in its
\* place, then custom column names or not, then the candidate targets.
MorphToCalls ==
  { <<>> } \cup
  { <<name>> \o cols \o cands :
      name \in { Undefined, Str(""), Str("imageable"), Ctor("Site") },
      cols \in { <<>>, <<ColumnNames>> },
      cands \in { <<>>, <<Ctor("Site")>>, <<Ctor("Site"), Ctor("Post")>> } }

\* arguments[i - 1], undefined beyond the arguments given.
Argument(a, i) == IF i <= Len(a) THEN a[i] ELSE Undefined

\* _.rest(arguments, n)
Rest(a, n) == SubSeq(a, n + 1, Len(a))

\* morphTo: the name must be a string; column names are taken when the second
\* argument is an array; what remains are the candidates.
morphToResult(a) ==
  LET morphName == Argument(a, 1)
      custom == isArray(Argument(a, 2))
      columnNames == IF custom THEN Argument(a, 2) ELSE Null
      remainder == IF custom THEN Rest(a, 2) ELSE Rest(a, 1)
  IN IF ~isString(morphName)
       THEN Threw("The morphTo name must be specified.")
       ELSE init(_relation("morphTo", Null,
                           [morphName |-> morphName, columnNames |-> columnNames,
                            candidates |-> remainder]), "this")

morphTo ==
  \E a \in MorphToCalls :
    /\ op' = "morphTo"
    /\ args' = a
    /\ declared' = morphToResult(a)
    /\ UNCHANGED <<pc, options, err, raisedBy, result, attributes, id,
                   previousAttributes, trace, hasTimestamps, defaults, sent, resp,
                   queries, executed, response, relations, inflight, qcount,
                   returned, replaced, eagerOptions, queryOptions, relatedData>>

\* The arguments morphOne and morphMany are called with.
MorphCalls ==
  [ Target : { Undefined, Ctor("Site") },
    name : { Undefined, Str(""), Str("imageable") },
    columnNames : { Undefined, Null, ColumnNames, Str("site") },
    morphValue : { Undefined, Str("sites") } ]

\* Mutant: only the name is required.
requiredMissing_nameOnly(Target, morphName) == Falsy(morphName)

\* if (!morphName || !Target) throw ...
requiredMissing(Target, morphName) == Falsy(morphName) \/ Falsy(Target)

\* _morphOneOrMany: a third argument that is no array is the morphValue.
_morphOneOrMany(Target, morphName, columnNames, morphValue, type) ==
  LET shift == ~isArray(columnNames)
      value == IF shift THEN columnNames ELSE morphValue
      names == IF shift THEN Null ELSE columnNames
  IN IF requiredMissing(Target, morphName)
       THEN Threw("The polymorphic name and Target are required.")
       ELSE init(_relation(type, Target,
                           [morphName |-> morphName, morphValue |-> value,
                            columnNames |-> names]), "this")

\* A call of morphOne or morphMany.
morphCall(type) ==
  \E c \in MorphCalls :
    /\ op' = type
    /\ args' = c
    /\ declared' = _morphOneOrMany(c.Target, c.name, c.columnNames, c.morphValue, type)
    /\ UNCHANGED <<pc, options, err, raisedBy, result, attributes, id,
                   previousAttributes, trace, hasTimestamps, defaults, sent, resp,
                   queries, executed, response, relations, inflight, qcount,
                   returned, replaced, eagerOptions, queryOptions, relatedData>>

morphOne == morphCall("morphOne")

morphMany == morphCall("morphMany")

NextRelate ==
  \/ morphTo
  \/ morphOne
  \/ morphMany

\* ----------------------------------------------------------------- claims
Range(seq) == { seq[i] : i \in DOMAIN seq }

\* Step a of this invocation was taken before its step b.
Precedes(a, b) == \E i, j \in DOMAIN trace : i < j /\ trace[i] = a /\ trace[j] = b

NoEagerQuery == inflight = {} /\ \A p \in Paths : qcount[p] = 0

\* The root select of this fetch has returned, and returned no row.
RootSelectEmpty ==
  /\ op = "fetch"
  /\ "response" \in Range(trace)
  /\ (response.missing \/ response.rows = <<>>)

RequireGiven == Has(options, "require") /\ options.require = TRUE

\* What runs only for a row that was found.
FoundSteps == {"set", "_reset", "parsePivot", "EagerRelation", "fetched"}

\* C1: a fetch with require: true whose root select returns no row rejects
\* with NotFoundError; in that run nothing is set on the model, no eager load
\* is started and 'fetched' is never triggered.
C1_RequireRejectsNotFound ==
  /\ [](RootSelectEmpty /\ RequireGiven =>
         /\ Range(trace) \cap FoundSteps = {}
         /\ NoEagerQuery
         /\ pc \in {"tapEmpty", "catch", "done"}
         /\ (pc = "done" => result = Rejected("NotFoundError")))
  /\ [][(RootSelectEmpty /\ RequireGiven)' =>
          attributes' = attributes /\ relations' = relations]_vars

C1_Witness ==
  /\ RootSelectEmpty /\ RequireGiven
  /\ Has(options, "withRelated") /\ options.withRelated # {}
  /\ pc = "done" /\ result = Rejected("NotFoundError")

\* C2: a fetch without require whose root select returns no row does not
\* reject: it resolves with an empty value that is not the model, and in that
\* run _handleResponse does not run, no eager query is issued even when
\* withRelated is given, and 'fetched' is not triggered.
C2_AbsenceResolvesEmpty ==
  /\ [](RootSelectEmpty /\ ~RequireGiven =>
         /\ Range(trace) \cap FoundSteps = {}
         /\ NoEagerQuery
         /\ pc \in {"tapEmpty", "catch", "done"}
         /\ (pc = "done" => result.state = "resolved" /\ result.value = "null"))
  /\ [][(RootSelectEmpty /\ ~RequireGiven)' =>
          attributes' = attributes /\ relations' = relations]_vars

C2_Witness ==
  /\ RootSelectEmpty /\ ~RequireGiven
  /\ Has(options, "withRelated") /\ options.withRelated # {}
  /\ response.rows = <<>> /\ ~response.missing
  /\ pc = "done" /\ result = Resolved("null")

\* The eager load of this invocation has begun.
EagerStarted == "EagerRelation" \in Range(trace) \/ ~NoEagerQuery

\* C3: in a fetch with withRelated the root select has returned and its row
\* is set on the model before the eager loader is constructed and before any
\* eager query is issued; the root fetch and the eager load never overlap.
C3_RootBeforeEager ==
  op = "fetch" =>
    /\ pc \in {"first", "tapEmpty", "handleResponse", "tapEager"} => ~EagerStarted
    /\ EagerStarted =>
         /\ Has(options, "withRelated")
         /\ Precedes("select", "response") /\ Precedes("response", "set")
         /\ Precedes("set", "_reset") /\ Precedes("_reset", "EagerRelation")
         /\ \A k \in DOMAIN response.rows[1] :
              Has(attributes, k) /\ attributes[k] = response.rows[1][k]

C3_Witness ==
  /\ op = "fetch" /\ pc = "eager"
  /\ inflight = {<<"genre">>, <<"editions">>}
  /\ attributes = [id |-> 1, title |-> 2]

\* A 'creating', 'updating', 'saving' or 'destroying' handler failed.
PreHookFailed == op \in {"save", "destroy"} /\ raisedBy = "pre"

WriteSteps == {"insert", "update", "del"}

\* C4: when a pre-save or pre-destroy hook fails, the operation rejects with
\* that failure and no insert, update or delete is issued in that invocation;
\* a write is issued only after the pre-hooks were triggered and succeeded.
C4_FailedHookIssuesNoWrite ==
  /\ PreHookFailed =>
       /\ Range(trace) \cap WriteSteps = {}
       /\ sent = NoAttrs
       /\ err \in Reasons
       /\ pc \in {"reject", "done"}
       /\ (pc = "done" => result = Rejected(err))
  /\ op \in {"save", "destroy"} /\ (pc \in {"write", "del"} \/ Range(trace) \cap WriteSteps # {}) =>
       /\ raisedBy # "pre"
       /\ IF op = "destroy" THEN "destroying" \in Range(trace)
          ELSE "saving" \in Range(trace) /\ Range(trace) \cap {"creating", "updating"} # {}

C4_Witness ==
  /\ op = "save" /\ raisedBy = "pre" /\ err = "Error"
  /\ "creating" \in Range(trace)
  /\ pc = "done" /\ result = Rejected("Error")

\* The delete of this destroy has returned, and affected no row.
ZeroRowDelete ==
  /\ op = "destroy"
  /\ "del" \in Range(trace)
  /\ raisedBy # "write"
  /\ resp = 0

\* C5: a destroy with require: true whose delete affects zero rows rejects
\* with NoRowsDeletedError and leaves the model's attributes uncleared;
\* 'destroyed' is not triggered and _reset is not run.
C5_RequireRejectsNoRowsDeleted ==
  /\ [](ZeroRowDelete /\ RequireGiven =>
         /\ Range(trace) \cap {"clear", "destroyed", "_reset"} = {}
         /\ pc \in {"deleted", "reject", "done"}
         /\ (pc = "done" => result = Rejected("NoRowsDeletedError")))
  /\ [][(ZeroRowDelete /\ RequireGiven)' =>
          /\ attributes' = attributes
          /\ id' = id
          /\ previousAttributes' = previousAttributes]_vars

C5_Witness ==
  /\ ZeroRowDelete /\ RequireGiven
  /\ attributes = [id |-> 1, title |-> 1]
  /\ pc = "done" /\ result = Rejected("NoRowsDeletedError")

\* This save inserts a model that had no id when it was called.
NewInsert ==
  /\ op = "save"
  /\ hasTimestamps
  /\ Has(options, "method") /\ options.method = "insert"
  /\ IF "insert" \in Range(trace) THEN ~Has(sent, "id") ELSE pc = "write" /\ id = <<>>

Stamped(a) ==
  /\ Has(a, "created_at") /\ a.created_at = Now
  /\ Has(a, "updated_at") /\ a.updated_at = Now

\* C6: a save of a new model with hasTimestamps sets the created and updated
\* timestamps on the model before the insert is issued, so that the inserted
\* attributes contain them; once the insert has returned, the model's id and
\* its idAttribute attribute both equal the first element of the result.
C6_TimestampsThenInsertedId ==
  NewInsert =>
    /\ Stamped(attributes)
    /\ "insert" \in Range(trace) => Stamped(sent)
    /\ "insert" \in Range(trace) /\ raisedBy # "write" /\ pc # "written" =>
         /\ id = <<resp[1]>>
         /\ Has(attributes, "id") /\ attributes.id = resp[1]

C6_Witness ==
  /\ NewInsert
  /\ pc = "done" /\ result = Resolved("model")
  /\ id = <<2>> /\ attributes.id = 2
  /\ ~Has(sent, "id") /\ Stamped(sent)

\* The update of this save has returned, and affected no row.
ZeroRowUpdate ==
  /\ op = "save"
  /\ "update" \in Range(trace)
  /\ raisedBy # "write"
  /\ resp = 0

RequireFalse == Has(options, "require") /\ options.require = FALSE

AfterUpdateSteps == {"_reset", "updated", "saved"}

\* C7: an update that affects zero rows rejects with NoRowsUpdatedError for
\* every options.require other than the literal false, require omitted
\* included, and then neither _reset nor 'updated'/'saved' runs; only with
\* require === false does it run _reset and 'updated saved' and resolve.
C7_ZeroRowUpdate ==
  ZeroRowUpdate =>
    IF RequireFalse
      THEN /\ pc # "written" =>
                AfterUpdateSteps \subseteq Range(trace) /\ raisedBy \in {"none", "post"}
           /\ (pc = "done" /\ raisedBy = "none" => result = Resolved("model"))
      ELSE /\ Range(trace) \cap AfterUpdateSteps = {}
           /\ pc \in {"written", "reject", "done"}
           /\ pc # "written" => raisedBy = "norows" /\ err = "NoRowsUpdatedError"
           /\ err # "QueryError"
           /\ (pc = "done" => result = Rejected("NoRowsUpdatedError"))

C7_Witness ==
  /\ ZeroRowUpdate
  /\ ~Has(options, "require")
  /\ pc = "done" /\ result = Rejected("NoRowsUpdatedError")

\* C8: whatever the failure raised by _handleResponse, by the eager load or
\* by a 'fetched' handler, the rest of the chain is skipped and fetch rejects
\* with that failure; it never resolves after such a failure.
C8_FailureRejectsFetch ==
  op = "fetch" /\ raisedBy \in {"parse", "eager", "fetched"} =>
    /\ pc \in {"catch", "done"}
    /\ raisedBy = "parse" => Range(trace) \cap FoundSteps = {}
    /\ raisedBy = "eager" => "fetched" \notin Range(trace)
    /\ (pc = "done" => result = Rejected(err))

\* C9: a load replaces the model's relations entry of each relation name it
\* loads with the rows that load resolved: after any number of loads the
\* entry holds exactly the result of the last one, nothing accumulated.
C9_LoadReplacesRelation ==
  /\ \A n \in DOMAIN relations : relations[n] \in Responses
  /\ \A p \in DOMAIN returned : Len(p) = 1 => relations[p[1]] = returned[p]
  /\ op = "load" /\ pc = "done" /\ result.state = "resolved" =>
       \A p \in args.value :
         /\ Has(returned, <<p[1]>>)
         /\ Has(relations, p[1])
         /\ relations[p[1]] = returned[<<p[1]>>]

C9_Witness ==
  /\ op = "load" /\ pc = "done" /\ result = Resolved("model")
  /\ "editions" \in replaced
  /\ relations.editions = <<>>

Front(p) == SubSeq(p, 1, Len(p) - 1)

QueryCount == Cardinality({ p \in Paths : qcount[p] > 0 })

\* The relation paths directly below p that this eager load was asked for.
AskedBelow(p) ==
  { q \in Paths : Len(q) = Len(p) + 1 /\ IsPrefix(p, q) /\
                  \E w \in withRelatedOf(eagerOptions) : IsPrefix(q, w) }

PreHooksTriggered ==
  /\ op \in {"save", "destroy"}
  /\ Range(trace) \cap {"saving", "destroying"} # {}

WriteIssued == op \in {"save", "destroy"} /\ Range(trace) \cap WriteSteps # {}

\* C14: the options.query the 'creating', 'updating', 'saving' and
\* 'destroying' handlers are given is the query object of the Sync that then
\* runs the insert, update or delete, so every constraint a handler added to
\* options.query is among the constraints of the write that follows.
C14_HookQueryIsWriteQuery ==
  /\ PreHooksTriggered =>
       /\ Has(options, "query")
       /\ options.query = syncQuery
  /\ WriteIssued =>
       /\ queries[options.query] \subseteq executed
       /\ executed = syncRuns(queries)

C14_Witness ==
  /\ op = "save" /\ pc = "done" /\ result = Resolved("model")
  /\ "update" \in Range(trace)
  /\ executed = {"where"}

\* C15: fetch resolves with the model itself when a row was found and
\* nothing failed, and with undefined when no row was found and require was
\* not given.
C15_ResolvesModelOrUndefined ==
  op = "fetch" /\ pc = "done" =>
    /\ ~RootSelectEmpty /\ raisedBy = "none" => result = Resolved("model")
    /\ RootSelectEmpty /\ ~Truthy(options, "require") => result = Resolved("undefined")

\* The call of morphTo names the relation and at least one candidate target.
MorphToComplete ==
  /\ Len(args) >= 1 /\ isString(args[1])
  /\ \E i \in 2..Len(args) : args[i] \in Targets

C17_MorphOneOrManyRequires ==
  op \in {"morphOne", "morphMany"} =>
    IF Falsy(args.name) \/ Falsy(args.Target)
      THEN declared.state = "threw"
      ELSE /\ declared.state = "relation"
           /\ declared.type = op
           /\ declared.target = args.Target
           /\ declared.options.morphName = args.name
           /\ declared.parent = "this"

C17_Witness ==
  /\ op = "morphMany"
  /\ args.Target = Undefined /\ args.name = Str("imageable")
  /\ args.columnNames = ColumnNames
  /\ declared.state = "threw"

\* C18: for morphOne and morphMany an array passed third is the columnNames
\* and the fourth argument the morphValue; a third argument that is no array
\* is the morphValue, with columnNames null, when no fourth is given; and a
\* morphValue passed fourth is the relation's morphValue also when the third
\* argument is left out.
C18_OptionalColumnNamesAndValue ==
  op \in {"morphOne", "morphMany"} /\ declared.state = "relation" =>
    LET third == args.columnNames
        fourth == args.morphValue
        o == declared.options
    IN /\ isArray(third) => o.columnNames = third /\ o.morphValue = fourth
       /\ ~isArray(third) /\ fourth = Undefined =>
            o.morphValue = third /\ o.columnNames = Null
       /\ third \in {Undefined, Null} /\ fourth # Undefined =>
            o.morphValue = fourth /\ o.columnNames = Null

\* The post-save handlers are triggered in this step.
PostHooksFire == op = "save" /\ "saved" \notin Range(trace) /\ "saved" \in Range(trace')

\* C20: a save that resolves has taken these steps in this order: attributes
\* set (then timestamps), 'creating saving' or 'updating saving', the write,
\* the id assigned (an insert of a model without id only), previousAttributes
\* captured into options, _reset, 'created saved' or 'updated saved'; it
\* resolves with the model. When the post-save handlers are triggered the
\* model has its id, and options.previousAttributes holds what
\* _previousAttributes was before the reset.
C20_SaveStepOrder ==
  /\ [](op = "save" /\ pc = "done" /\ result.state = "resolved" =>
         /\ result = Resolved("model")
         /\ trace = <<"set">>
                 \o (IF hasTimestamps THEN <<"timestamp">> ELSE <<>>)
                 \o (IF options.method = "insert" THEN <<"creating", "saving">>
                                                 ELSE <<"updating", "saving">>)
                 \o <<options.method>>
                 \o (IF options.method = "insert" /\ ~Has(sent, "id")
                       THEN <<"id">> ELSE <<>>)
                 \o <<"previousAttributes", "_reset">>
                 \o (IF options.method = "insert" THEN <<"created", "saved">>
                                                 ELSE <<"updated", "saved">>))
  /\ [][PostHooksFire =>
          /\ options'.previousAttributes = previousAttributes
          /\ previousAttributes' = attributes'
          /\ options.method = "insert" =>
               /\ id' # <<>>
               /\ attributes'.id = id'[1]
               /\ id = <<>> => id' = <<resp[1]>>]_vars

C20_Witness ==
  /\ op = "save" /\ pc = "done" /\ result = Resolved("model")
  /\ hasTimestamps
  /\ "id" \in Range(trace)
  /\ options.previousAttributes = [id |-> 1, title |-> 1]
  /\ id = <<2>>
  /\ previousAttributes = attributes

\* The callback of save that resolves the method and sets the attributes runs
\* in this step.
Preparing == op = "save" /\ pc = "prepare"

\* C21: save applies a default only when the method is 'insert' or
\* options.defaults is set, and only to an attribute that is neither passed
\* to save nor already on the model: a passed attribute wins over one on the
\* model, which wins over the default; an update without options.defaults
\* applies no default.
C21_DefaultsPrecedence ==
  [][Preparing =>
      \A k \in DOMAIN defaults :
        IF Has(args, k) THEN attributes'[k] = args[k]
        ELSE IF Has(attributes, k) THEN attributes'[k] = attributes[k]
        ELSE IF options'.method = "insert" \/ Truthy(options, "defaults")
          THEN attributes'[k] = defaults[k]
          ELSE ~Has(attributes', k)]_vars

C21_Witness ==
  /\ op = "save" /\ pc = "done" /\ result = Resolved("model")
  /\ defaults = [title |-> 0]
  /\ options.method = "update" /\ Truthy(options, "defaults")
  /\ Has(attributes, "title") /\ attributes.title = 0
  /\ Has(options.previousAttributes, "title") /\ options.previousAttributes.title = 0

\* This save resolves to an update with options.patch.
PatchUpdate(opts) == opts.method = "update" /\ Truthy(opts, "patch")

\* C22: an update with options.patch sends exactly the attributes passed to
\* save, extended with the timestamp attributes when the model has
\* timestamps; every other save sends the model's full current attributes.
C22_SentAttributes ==
  /\ [][Preparing /\ PatchUpdate(options') =>
          args' = Extend(args, IF hasTimestamps THEN [updated_at |-> Now] ELSE NoAttrs)]_vars
  /\ [][op = "save" /\ pc = "write" =>
          sent' = IF PatchUpdate(options) THEN args ELSE attributes]_vars

\* C23: a destroy that resolves has taken the steps 'destroying', the
\* delete, the clearing of the attributes, 'destroyed', _reset, in this
\* order; a delete of zero rows without options.require goes on like any
\* other: the attributes are cleared and 'destroyed' is triggered; and the
\* attributes of the model change only once the delete has returned.
C23_DestroyStepOrder ==
  /\ [](op = "destroy" /\ pc = "done" /\ result.state = "resolved" =>
         /\ trace = <<"destroying", "del", "clear", "destroyed", "_reset">>
         /\ attributes = NoAttrs /\ id = <<>>)
  /\ [](ZeroRowDelete /\ ~Truthy(options, "require") /\ pc # "deleted" =>
         /\ Precedes("clear", "destroyed")
         /\ attributes = NoAttrs
         /\ raisedBy \in {"none", "post"})
  /\ [][op = "destroy" /\ attributes' # attributes =>
          /\ pc = "deleted"
          /\ Precedes("destroying", "del")
          /\ raisedBy = "none"]_vars

C23_Witness ==
  /\ ZeroRowDelete /\ ~Has(options, "require")
  /\ pc = "done" /\ result = Resolved("model")
  /\ attributes = NoAttrs
  /\ options.query = syncQuery /\ executed = {"where"}

\* What only a fetch does: the root select and its events, and the row set
\* on the model.
RootFetchSteps == {"fetching", "select", "response", "set", "_reset", "parsePivot", "fetched"}

\* C24: load selects no root row and triggers neither 'fetching' nor
\* 'fetched': its single root row is the model's formatted attributes; the
\* loader is given shallow: true and, as withRelated, the relations asked
\* for, a single name wrapped into an array, whatever the caller's options
\* hold for these keys; the model's attributes stay as they are, and load
\* resolves with the model.
C24_LoadFrame ==
  /\ [](op = "load" =>
         /\ Range(trace) \cap RootFetchSteps = {}
         /\ pc # "format" => response = Array(<<format(attributes)>>)
         /\ EagerStarted =>
              /\ eagerOptions.shallow = TRUE
              /\ eagerOptions.withRelated = args.value
              /\ ~args.isArray => Cardinality(eagerOptions.withRelated) = 1
         /\ pc = "done" /\ result.state = "resolved" => result = Resolved("model"))
  /\ [][op = "load" =>
          /\ attributes' = attributes
          /\ id' = id
          /\ previousAttributes' = previousAttributes]_vars

C24_Witness ==
  /\ op = "load" /\ pc = "done" /\ result = Resolved("model")
  /\ ~args.isArray /\ args.value = {<<"editions", "printings">>}
  /\ Has(options, "shallow") /\ options.shallow = FALSE
  /\ options.withRelated = {<<"genre">>}
  /\ eagerOptions.shallow = TRUE
  /\ Has(returned, <<"editions", "printings">>)
  /\ ~Has(relations, "genre")

\* A populated model on which only load is called.
InitLoad ==
  /\ Constructed
  /\ attributes = [id |-> 1, title |-> 1]
  /\ id = <<1>>
  /\ previousAttributes = attributes
  /\ relatedData = "none"
  /\ hasTimestamps = FALSE
  /\ defaults = NoAttrs

NextLoad ==
  \/ load
  \/ loadFormat
  \/ loadHandleEager
  \/ eagerQueryReturns
  \/ eagerQueryFails
  \/ loadReturn
  \/ loadReject

SpecLoad == InitLoad /\ [][NextLoad]_vars

\* A model class whose relation methods are called.
SpecRelate == InitLoad /\ [][NextRelate]_vars

\* fetch and load called on one model in any order.
NextRead ==
  \/ fetch
  \/ syncFirst
  \/ fetchTapEmpty
  \/ _handleResponse
  \/ fetchTapEager
  \/ fetchTapFetched
  \/ fetchReturn
  \/ fetchCatch
  \/ load
  \/ loadFormat
  \/ loadHandleEager
  \/ loadReturn
  \/ loadReject
  \/ eagerQueryReturns
  \/ eagerQueryFails

SpecRead == InitLoad /\ [][NextRead]_vars

\* o carries every key of the caller's options but those in `but`, unchanged.
KeepsAllBut(o, caller, but) ==
  \A k \in DOMAIN caller \ but : Has(o, k) /\ o[k] = caller[k]

\* C11: the options fetch hands to the eager loader are the caller's options
\* without the columns key and nothing else changed; the options load hands
\* to it are the caller's with shallow forced to true and withRelated set to
\* the relations asked for and nothing else changed; every eager query, at
\* every level, is issued with the caller's transaction handle when one is
\* given.
C11_TransactingReachesEveryLevel ==
  /\ op = "fetch" /\ EagerStarted =>
       /\ DOMAIN eagerOptions = DOMAIN options \ {"columns"}
       /\ KeepsAllBut(eagerOptions, options, {"columns"})
  /\ op = "load" /\ EagerStarted =>
       /\ DOMAIN eagerOptions = DOMAIN options \cup {"shallow", "withRelated"}
       /\ KeepsAllBut(eagerOptions, options, {"shallow", "withRelated"})
       /\ eagerOptions.shallow = TRUE
       /\ eagerOptions.withRelated = args.value
  /\ \A p \in Paths : qcount[p] > 0 =>
       /\ Has(queryOptions, p)
       /\ Has(options, "transacting") =>
            /\ Has(queryOptions[p], "transacting")
            /\ queryOptions[p].transacting = options.transacting

C11_Witness ==
  /\ op = "fetch" /\ pc = "done" /\ result = Resolved("model")
  /\ Has(options, "transacting") /\ Has(options, "columns")
  /\ ~Has(eagerOptions, "columns")
  /\ Has(queryOptions, <<"editions", "printings">>)
  /\ queryOptions[<<"editions", "printings">>].transacting = "trx"
  /\ Has(relations, "genre")

\* The query of relation path p has been issued in this invocation.
Issued(p) == p \in inflight \/ qcount[p] > 0

\* C12: within one eager load the query of a nested level is issued only
\* once the query of its parent level has returned its rows, while the
\* queries of the sibling relations of the root are all issued together and
\* return in any order.
C12_NestedAfterParentSiblingsTogether ==
  /\ \A p \in Paths : Len(p) > 1 /\ Issued(p) =>
       /\ Has(returned, Front(p))
       /\ Front(p) \notin inflight
       /\ returned[Front(p)] # <<>>
  /\ EagerStarted =>
       \A p \in Requested(withRelatedOf(eagerOptions), <<>>) : qcount[p] = 1
  /\ \A p \in inflight : ~Has(returned, p)

C12_Witness ==
  /\ op = "fetch" /\ pc = "eager"
  /\ inflight = {<<"genre">>, <<"editions", "printings">>}
  /\ Has(returned, <<"editions">>) /\ ~Has(returned, <<"genre">>)

\* Every relation path this eager load may have to query: the requested
\* paths and their prefixes.
Asked == { q \in Paths : \E w \in withRelatedOf(eagerOptions) : IsPrefix(q, w) }

\* The asked paths whose query has not returned.
Remaining == { q \in Asked : ~Has(returned, q) }

\* The number of segments of the longest requested path.
MaxDepth(W) == IF W = {} THEN 0 ELSE CHOOSE n \in { Len(w) : w \in W } :
                                     \A w \in W : Len(w) <= n

\* C13: when the query of a relation returns no rows, no query is issued for
\* any level below it and those levels get no result, while the relation
\* itself gets the empty result; no level deeper than the longest requested
\* path is ever queried, and every step of the eager load strictly shrinks
\* the set of levels still to be resolved, unless it fails the load, so that
\* the load ends.
C13_EmptyLevelEndsRecursion ==
  /\ [](\A p \in DOMAIN returned : returned[p] = <<>> =>
          /\ \A q \in Paths : IsPrefix(p, q) /\ q # p =>
                ~Issued(q) /\ ~Has(returned, q)
          /\ Len(p) = 1 => Has(relations, p[1]) /\ relations[p[1]] = <<>>)
  /\ [](\A p \in Paths : Issued(p) =>
          p \in Asked /\ Len(p) <= MaxDepth(withRelatedOf(eagerOptions)))
  /\ [](pc = "eager" => inflight # {} /\ inflight \subseteq Remaining)
  /\ [][pc = "eager" =>
          \/ Cardinality(Remaining') < Cardinality(Remaining)
          \/ raisedBy' = "eager" /\ pc' # "eager"]_vars

C13_Witness ==
  /\ op = "fetch" /\ pc = "done" /\ result = Resolved("model")
  /\ Has(options, "withRelated")
  /\ options.withRelated = {<<"genre">>, <<"editions", "printings", "pages">>}
  /\ Has(returned, <<"editions">>) /\ returned[<<"editions">>] = <<>>
  /\ relations.editions = <<>>
  /\ ~Has(returned, <<"editions", "printings">>)
  /\ qcount[<<"editions", "printings">>] = 0
  /\ qcount[<<"editions", "printings", "pages">>] = 0

\* An asked relation path whose roots exist: a relation of the root, or a
\* nested one whose parent level returned rows.
Resolvable(q) ==
  Len(q) = 1 \/ (Has(returned, Front(q)) /\ returned[Front(q)] # <<>>)

\* C19: a fetch that resolves with the model has taken these steps, each
\* once and in this order: the root select, the row set on the model and the
\* change tracking reset, the pivot parsed (exactly when relatedData is a
\* joined relation), the eager load (exactly when withRelated is given),
\* 'fetched'; and whenever 'fetched' has been triggered no eager query is in
\* flight and every requested relation level that has roots has returned.
C19_FetchStepOrder ==
  /\ op = "fetch" /\ pc = "done" /\ result = Resolved("model") =>
       trace = <<"fetching", "select", "response", "set", "_reset">>
               \o (IF relatedData = "belongsToMany" THEN <<"parsePivot">> ELSE <<>>)
               \o (IF Has(options, "withRelated") THEN <<"EagerRelation">> ELSE <<>>)
               \o <<"fetched">>
  /\ op = "fetch" /\ "fetched" \in Range(trace) =>
       /\ pc \in {"return", "catch", "done"}
       /\ inflight = {}
       /\ \A q \in Asked : Resolvable(q) => Has(returned, q)
       /\ \A w \in withRelatedOf(options) : Has(relations, w[1])

C19_Witness ==
  /\ op = "fetch" /\ pc = "done" /\ result = Resolved("model")
  /\ relatedData = "belongsToMany"
  /\ Has(options, "withRelated")
  /\ options.withRelated = {<<"genre">>, <<"editions">>}
  /\ "parsePivot" \in Range(trace)
  /\ relations.editions = <<1, 2>>

Next ==
  \/ fetch
  \/ syncFirst
  \/ fetchTapEmpty
  \/ _handleResponse
  \/ fetchTapEager
  \/ eagerQueryReturns
  \/ eagerQueryFails
  \/ fetchTapFetched
  \/ fetchReturn
  \/ fetchCatch

Spec == Init /\ [][Next]_vars

====
